---- MODULE Spec2Model ----
(***************************************************************************)
(* COVID-19 Data Explorer (src/streamlit_app.py).                          *)
(*                                                                         *)
(* One page load is one run of the script: COVIDDataExplorer() calls       *)
(* load_data, then COVIDDataExplorer.main renders the four sections.  The  *)
(* only state that survives a page load is the entry the st.cache_data     *)
(* decorator keeps for fetch_covid_data.                                   *)
(*                                                                         *)
(* A table (DataFrame) is a record [isNone, columns, rows]; rows is the    *)
(* sequence of its rows in positional order, each row a record over the    *)
(* dataset's columns.  A missing cell (NaN) is the value NaN.              *)
(***************************************************************************)
EXTENDS Integers, Sequences, FiniteSets, TLC

\* ------------------------------------------------------------------ bounds
MaxRows == 4          \* rows of the published CSV (page-load specification)
MaxDataRows == 2      \* rows of the CSV (preprocessing specification)
MaxLoads == 3         \* page loads in one behaviour

\* --------------------------------------------------------------- constants
\* st.cache_data(ttl=24*3600): seconds an entry stays valid
TTL == 24 * 3600
\* nlargest(10, 'total_vaccinations')
TopN == 10

\* NaN / missing cell.  Every value the dataset holds here is >= 0.
NaN == 0 - 1
\* "never" for a time stamp
Never == 0 - 1

\* Countries of the dataset, in the order sorted() gives them.
LocationOrder == <<"Brazil", "India", "United States">>
Locations == {LocationOrder[i] : i \in 1..Len(LocationOrder)}
LocRank(l) == CHOOSE i \in 1..Len(LocationOrder) : LocationOrder[i] = l

\* The 'date' column as text in the CSV, in calendar order.
DateText == <<"2020-01-01", "2020-01-02">>
Days == 1..Len(DateText)

NumericColumns ==
    {"total_cases", "new_cases", "total_deaths", "new_deaths",
     "total_vaccinations", "people_fully_vaccinated",
     "population", "new_vaccinations"}
CsvColumns == {"location", "date"} \cup NumericColumns

Max(S) == CHOOSE x \in S : \A y \in S : y <= x
Min(S) == CHOOSE x \in S : \A y \in S : x <= y

\* ------------------------------------------------------------------ tables
NoneValue == [isNone |-> TRUE, columns |-> {}, rows |-> <<>>]
DataFrame(cols, rs) == [isNone |-> FALSE, columns |-> cols, rows |-> rs]

\* One CSV line: the numeric columns in `missing` are empty, the others hold v.
CsvRow(loc, d, missing, v) ==
    [c \in CsvColumns |->
        IF c = "location" THEN loc
        ELSE IF c = "date" THEN DateText[d]
        ELSE IF c \in missing THEN NaN ELSE v]

\* The published file of the page-load specification: one line per
\* (location, day), ordered by location and day as the dataset is.
RowKeys == Locations \X Days
KeyLess(a, b) ==
    \/ LocRank(a[1]) < LocRank(b[1])
    \/ a[1] = b[1] /\ a[2] < b[2]
PublishedRow(k) ==
    CsvRow(k[1], k[2],
           IF k[2] = 1 THEN {"total_vaccinations", "population", "new_vaccinations"}
                       ELSE {"new_cases"},
           10 * k[2] + LocRank(k[1]))
RECURSIVE TableOf(_)
TableOf(K) ==
    IF K = {} THEN <<>>
    ELSE LET k == CHOOSE a \in K : \A b \in K \ {a} : KeyLess(a, b)
         IN  <<PublishedRow(k)>> \o TableOf(K \ {k})
KeysOf(rows) ==
    {k \in RowKeys : \E i \in 1..Len(rows) :
        rows[i].location = k[1] /\ rows[i].date = DateText[k[2]]}
PublishedKeySets == {K \in SUBSET RowKeys : Cardinality(K) \in 1..MaxRows}

\* The files of the preprocessing specification: lines in any order, one per
\* (location, day) at most, with no cell, one cell or every numeric cell missing.
Masks == {{}} \cup {{c} : c \in NumericColumns} \cup {NumericColumns}
DataRows == {CsvRow(l, d, m, d) : l \in Locations, d \in Days, m \in Masks}
DataTables ==
    {t \in UNION {[1..n -> DataRows] : n \in 1..MaxDataRows} :
        \A i \in 1..Len(t), j \in 1..Len(t) :
            (t[i].location = t[j].location /\ t[i].date = t[j].date) => i = j}

\* ------------------------------------------------------------ fetch_covid_data
\* pd.to_datetime on one cell: the text becomes a point in time (a day number).
to_datetime(s) == CHOOSE d \in Days : DateText[d] = s

columns_to_fill_short ==
    {"total_cases", "new_cases", "total_deaths", "new_deaths",
     "total_vaccinations"}
columns_to_fill ==
    {"total_cases", "new_cases", "total_deaths", "new_deaths",
     "total_vaccinations", "people_fully_vaccinated"}

\* df[col] = df[col].fillna(0) for col in columns_to_fill
fillna(row) ==
    [c \in DOMAIN row |->
        IF c \in columns_to_fill /\ row[c] = NaN THEN 0 ELSE row[c]]

\* The try body of fetch_covid_data applied to the lines read by pd.read_csv.
preprocess(csv) ==
    DataFrame(CsvColumns,
        [i \in 1..Len(csv) |->
            fillna([csv[i] EXCEPT !.date = to_datetime(csv[i].date)])])

\* ----------------------------------------------------------------- load_data
RECURSIVE SortedLocs(_)
\* sorted(...) of a set of country names
SortedLocs(S) ==
    IF S = {} THEN <<>>
    ELSE LET m == CHOOSE l \in S : \A k \in S : LocRank(l) <= LocRank(k)
         IN  <<m>> \o SortedLocs(S \ {m})

unique_locations(df) == {df.rows[i].location : i \in 1..Len(df.rows)}

\* GroupBy.last() on one column of one group: the last entry that is not
\* missing, in positional order; missing when the group has none.
last(rows, loc, col) ==
    LET idx == {i \in 1..Len(rows) : rows[i].location = loc /\ rows[i][col] # NaN}
    IN  IF idx = {} THEN NaN ELSE rows[Max(idx)][col]

\* self.df.groupby('location').last().reset_index()
groupby_last(df) ==
    LET locs == SortedLocs(unique_locations(df))
    IN  DataFrame(df.columns,
            [g \in 1..Len(locs) |->
                [c \in df.columns |->
                    IF c = "location" THEN locs[g] ELSE last(df.rows, locs[g], c)]])

\* ------------------------------------------------------------------- state
VARIABLES
    now,                \* wall clock, seconds
    loads,              \* page loads started so far
    network,            \* "up" | "down": whether the GET of this page load succeeds
    remote,             \* the lines of the CSV behind the fixed URL
    cache,              \* st.cache_data's entry for fetch_covid_data
    failed_at,          \* time of the last GET that raised (Never if none)
    pc,                 \* "idle" | "init" | "main" | "done" | "crashed"
    heap,               \* the DataFrame objects of the running script, by reference
    attrs,              \* the attributes of self that are set
    self_countries,     \* self.countries
    rendered,           \* the sections main has called in this page load, in order
    raised,             \* the exception that ended the page load ("none" if none)
    errors,             \* st.error messages shown in this page load
    gets,               \* GETs issued in this page load
    fetch_status,       \* "none" | "hit" | "ok" | "failed": how self.df was obtained
    reads,              \* attributes of self read in this page load
    chart,              \* the table given to the last st.plotly_chart call
    selected_countries, \* value of the "Select Countries" multiselect
    date_range,         \* value of the "Select Date Range" date_input
    predict_country,    \* value of the "Select Country for Prediction" selectbox
    split,              \* train_test_split's result, as row positions of country_data
    metrics             \* labels of the st.metric calls of the last section

vars == <<now, loads, network, remote, cache, failed_at, pc, heap, attrs,
          self_countries, rendered, raised, errors, gets, fetch_status, reads,
          chart, selected_countries, date_range, predict_country, split, metrics>>

Refs == {"df", "latest_data", "map_data", "filtered_df", "selection",
         "country_data", "top_vaccination"}
EmptyHeap == [r \in Refs |-> NoneValue]
NoSplit == [train |-> {}, test |-> {}]
EmptyCache == [present |-> FALSE, at |-> Never, value |-> NoneValue, replay |-> {}]

\* Time between two page loads (seconds).
Deltas == {TTL - 1, TTL}

\* What a page load starts from: a fresh script run, nothing set on self.
FreshRun ==
    /\ heap = EmptyHeap
    /\ attrs = {}
    /\ self_countries = <<>>
    /\ rendered = <<>>
    /\ raised = "none"
    /\ errors = {}
    /\ gets = 0
    /\ fetch_status = "none"
    /\ reads = {}
    /\ chart = NoneValue
    /\ selected_countries = {}
    /\ date_range = <<>>
    /\ predict_country = "none"
    /\ split = NoSplit
    /\ metrics = {}

Init ==
    /\ now = 0
    /\ loads = 0
    /\ network = "up"
    /\ remote \in {TableOf(K) : K \in PublishedKeySets}
    /\ cache = EmptyCache
    /\ failed_at = Never
    /\ pc = "idle"
    /\ FreshRun

\* The preprocessing specification starts inside a page load, at the call of
\* load_data, with an empty cache and any file behind the URL.
InitData ==
    /\ now = 0
    /\ loads = 1
    /\ network \in {"up", "down"}
    /\ remote \in DataTables
    /\ cache = EmptyCache
    /\ failed_at = Never
    /\ pc = "init"
    /\ FreshRun

\* -------------------------------------------------------------- environment
\* The browser (re)runs the script d seconds after the previous run began; by
\* then the dataset's maintainers have published the lines K (the old ones and
\* at most one more).
page_load(d, n, K) ==
    /\ pc \in {"idle", "done", "crashed"}
    /\ loads < MaxLoads
    /\ KeysOf(remote) \subseteq K
    /\ Cardinality(K \ KeysOf(remote)) <= 1
    /\ remote' = TableOf(K)
    /\ now' = now + d
    /\ loads' = loads + 1
    /\ network' = n
    /\ pc' = "init"
    /\ heap' = EmptyHeap
    /\ attrs' = {}
    /\ self_countries' = <<>>
    /\ rendered' = <<>>
    /\ raised' = "none"
    /\ errors' = {}
    /\ gets' = 0
    /\ fetch_status' = "none"
    /\ reads' = {}
    /\ chart' = NoneValue
    /\ selected_countries' = {}
    /\ date_range' = <<>>
    /\ predict_country' = "none"
    /\ split' = NoSplit
    /\ metrics' = {}
    /\ UNCHANGED <<cache, failed_at>>

\* ------------------------------------------------------- st.cache_data(ttl)
\* An entry is served while the clock is before its expiry, at + ttl.
cache_fresh_inclusive(entry, t) == entry.present /\ t - entry.at <= TTL
cache_fresh(entry, t) == entry.present /\ t - entry.at < TTL

\* The decorator stores whatever the function returned, with the elements the
\* function showed (they are replayed on a hit).
cache_entry_skip_none(old, value, shown, t) ==
    IF value.isNone THEN old
    ELSE [present |-> TRUE, at |-> t, value |-> value, replay |-> shown]
cache_entry(old, value, shown, t) ==
    [present |-> TRUE, at |-> t, value |-> value, replay |-> shown]

\* ----------------------------------------------------------------- load_data
\* __init__ -> load_data: fetch_covid_data through the cache, then the two
\* derived attributes when the table is there.
load_data ==
    /\ pc = "init"
    /\ LET hit    == cache_fresh(cache, now)
           ok     == network = "up"
           result == IF hit THEN cache.value
                     ELSE IF ok THEN preprocess(remote) ELSE NoneValue
           shown  == IF hit THEN cache.replay
                     ELSE IF ok THEN {} ELSE {"Error loading data"}
       IN  /\ cache' = IF hit THEN cache ELSE cache_entry(cache, result, shown, now)
           /\ gets' = IF hit THEN gets ELSE gets + 1
           /\ fetch_status' = IF hit THEN "hit" ELSE IF ok THEN "ok" ELSE "failed"
           /\ failed_at' = IF ~hit /\ ~ok THEN now ELSE failed_at
           /\ errors' = errors \cup shown
           /\ heap' = [heap EXCEPT
                         !["df"] = result,
                         !["latest_data"] =
                             IF result.isNone THEN @ ELSE groupby_last(result)]
           /\ attrs' = IF result.isNone THEN {"df"}
                       ELSE {"df", "latest_data", "countries"}
           /\ self_countries' = IF result.isNone THEN <<>>
                                ELSE SortedLocs(unique_locations(result))
    /\ reads' = reads \cup {"df"}
    /\ pc' = "main"
    /\ UNCHANGED <<now, loads, network, remote, rendered, raised, chart,
                   selected_countries, date_range, predict_country, split, metrics>>

\* ---------------------------------------------------------------------- main
\* main's test: if self.df is not None
DataLoadedAlways == TRUE
DataLoaded == ~heap["df"].isNone

\* The calls of main, in order.
SectionOrderSwapped ==
    <<"global_overview", "vaccination_progress", "time_series_analysis",
      "predictive_modeling">>
SectionOrder ==
    <<"global_overview", "time_series_analysis", "vaccination_progress",
      "predictive_modeling">>

\* main is about to call section s.
Calls(s) ==
    /\ pc = "main"
    /\ DataLoaded
    /\ Len(rendered) < Len(SectionOrder)
    /\ SectionOrder[Len(rendered) + 1] = s

\* Section s returns to main / raises exc, which nothing catches.
Returns(s) ==
    /\ rendered' = Append(rendered, s)
    /\ raised' = "none"
    /\ pc' = IF Len(rendered) + 1 = Len(SectionOrder) THEN "done" ELSE "main"
Raises(s, exc) ==
    /\ rendered' = Append(rendered, s)
    /\ raised' = exc
    /\ pc' = "crashed"

\* main's else branch.
main_no_data ==
    /\ pc = "main"
    /\ ~DataLoaded
    /\ errors' = errors \cup {"Unable to load COVID-19 data"}
    /\ pc' = "done"
    /\ UNCHANGED <<now, loads, network, remote, cache, failed_at, heap, attrs,
                   self_countries, rendered, raised, gets, fetch_status, reads,
                   chart, selected_countries, date_range, predict_country,
                   split, metrics>>

\* ------------------------------------------------------------------ sections
\* DataFrame.copy(): a new object; `fresh` is the reference it gets.
copy_alias(src, fresh) == src
copy(src, fresh) == fresh

\* frame[name] = ...: the object gains the column.
add_column(frame, name) == [frame EXCEPT !.columns = @ \cup {name}]

\* The locals of a section die when it returns.
drop_locals(h) ==
    [r \in Refs |-> IF r \in {"df", "latest_data"} THEN h[r] ELSE NoneValue]

Env == <<now, loads, network, remote, cache, failed_at, errors, gets,
         fetch_status, attrs, self_countries>>

global_overview ==
    /\ Calls("global_overview")
    /\ reads' = reads \cup {"latest_data"}
    /\ IF "latest_data" \notin attrs
       THEN /\ Raises("global_overview", "AttributeError")
            /\ UNCHANGED <<heap, chart, metrics>>
       ELSE LET t  == copy("latest_data", "map_data")
                h1 == [heap EXCEPT ![t] = heap["latest_data"]]
                h2 == [h1 EXCEPT ![t] = add_column(h1[t], "log_cases")]
            IN  /\ heap' = drop_locals(h2)
                /\ chart' = h2[t]
                /\ metrics' = {"Total Global Cases", "Total Global Deaths",
                               "Total Vaccinations", "Countries Affected"}
                /\ Returns("global_overview")
    /\ UNCHANGED Env
    /\ UNCHANGED <<selected_countries, date_range, predict_country, split>>

\* default=["United States", "India", "Brazil"] of the country multiselect
default_countries == {"United States", "India", "Brazil"}

CountrySet == {self_countries[i] : i \in 1..Len(self_countries)}

\* What st.date_input can return for a range: the start alone while the user is
\* still choosing, or both ends.
DateRanges == {<<a>> : a \in Days} \cup {<<a, b>> : a \in Days, b \in Days}

\* Series.between(left, right), inclusive="both"
between(d, left, right) == left <= d /\ d <= right

\* self.df[isin(selected) & between(...)]
filter_rows(rows, sel, left, right) ==
    SelectSeq(rows, LAMBDA r : r.location \in sel /\ between(r.date, left, right))

time_series_analysis(sel, dr) ==
    /\ Calls("time_series_analysis")
    /\ reads' = reads \cup {"countries", "df"}
    /\ IF "countries" \notin attrs
       THEN /\ Raises("time_series_analysis", "AttributeError")
            /\ selected_countries' = {}
            /\ date_range' = <<>>
            /\ UNCHANGED <<heap, chart>>
       ELSE IF ~(default_countries \subseteq CountrySet)
       THEN \* the multiselect rejects a default that is not among its options
            /\ Raises("time_series_analysis", "StreamlitAPIException")
            /\ selected_countries' = {}
            /\ date_range' = <<>>
            /\ UNCHANGED <<heap, chart>>
       ELSE /\ sel \subseteq CountrySet
            /\ selected_countries' = sel
            /\ date_range' = dr
            /\ IF Len(dr) < 2
               THEN \* date_range[1] on a one-element tuple
                    /\ Raises("time_series_analysis", "IndexError")
                    /\ UNCHANGED <<heap, chart>>
               ELSE LET filtered_df ==
                            DataFrame(heap["df"].columns,
                                filter_rows(heap["df"].rows, sel, dr[1], dr[2]))
                        h1 == [heap EXCEPT !["filtered_df"] = filtered_df]
                    IN  /\ heap' = drop_locals(h1)
                        /\ chart' = h1["filtered_df"]
                        /\ Returns("time_series_analysis")
    /\ metrics' = {}
    /\ UNCHANGED Env
    /\ UNCHANGED <<predict_country, split>>

RECURSIVE nlargest(_, _, _)
\* DataFrame.nlargest(n, col): the n rows with the largest col, largest first,
\* the earlier row first among equals.
nlargest(n, rows, col) ==
    IF n = 0 \/ rows = <<>> THEN <<>>
    ELSE LET m == Max({rows[i][col] : i \in 1..Len(rows)})
             j == Min({i \in 1..Len(rows) : rows[i][col] = m})
         IN  <<rows[j]>> \o
             nlargest(n - 1,
                      [i \in 1..(Len(rows) - 1) |-> IF i < j THEN rows[i] ELSE rows[i + 1]],
                      col)

vaccination_progress ==
    /\ Calls("vaccination_progress")
    /\ reads' = reads \cup {"latest_data"}
    /\ IF "latest_data" \notin attrs
       THEN /\ Raises("vaccination_progress", "AttributeError")
            /\ UNCHANGED <<heap, chart>>
       ELSE LET top == DataFrame(heap["latest_data"].columns,
                           nlargest(TopN, heap["latest_data"].rows, "total_vaccinations"))
                h1 == [heap EXCEPT !["top_vaccination"] = top]
                h2 == [h1 EXCEPT !["top_vaccination"] =
                                    add_column(@, "vaccination_percentage")]
            IN  /\ heap' = drop_locals(h2)
                /\ chart' = h2["top_vaccination"]
                /\ Returns("vaccination_progress")
    /\ metrics' = {}
    /\ selected_countries' = {}
    /\ date_range' = <<>>
    /\ UNCHANGED Env
    /\ UNCHANGED <<predict_country, split>>

\* train_test_split(test_size=0.2): n_test = ceil(0.2 * n), n_train = n - n_test
n_test(n) == (n + 4) \div 5
n_train(n) == n - n_test(n)

predictive_modeling(country, test) ==
    /\ Calls("predictive_modeling")
    /\ reads' = reads \cup {"countries", "df"}
    /\ IF "countries" \notin attrs
       THEN /\ Raises("predictive_modeling", "AttributeError")
            /\ predict_country' = "none"
            /\ split' = NoSplit
            /\ metrics' = {}
            /\ UNCHANGED <<heap, chart>>
       ELSE /\ country \in CountrySet
            /\ predict_country' = country
            /\ LET picked == DataFrame(heap["df"].columns,
                                 SelectSeq(heap["df"].rows,
                                           LAMBDA r : r.location = country))
                   h1 == [heap EXCEPT !["selection"] = picked]
                   t  == copy("selection", "country_data")
                   h2 == [h1 EXCEPT ![t] = h1["selection"]]
                   h3 == [h2 EXCEPT ![t] = add_column(@, "days_since_start")]
                   n  == Len(h3[t].rows)
               IN  IF n_train(n) = 0
                   THEN \* "the resulting train set will be empty"
                        /\ Raises("predictive_modeling", "ValueError")
                        /\ split' = NoSplit
                        /\ metrics' = {}
                        /\ heap' = drop_locals(h3)
                        /\ UNCHANGED chart
                   ELSE /\ test \subseteq 1..n
                        /\ Cardinality(test) = n_test(n)
                        /\ split' = [train |-> (1..n) \ test, test |-> test]
                        /\ metrics' = {"Mean Squared Error", "R2 Score"}
                        /\ heap' = drop_locals(h3)
                        /\ chart' = DataFrame(h3[t].columns,
                                        [i \in 1..n_test(n) |->
                                            h3[t].rows[Min({j \in test :
                                                Cardinality({k \in test : k <= j}) = i})]])
                        /\ Returns("predictive_modeling")
    /\ selected_countries' = {}
    /\ date_range' = <<>>
    /\ UNCHANGED Env

\* ------------------------------------------------------------ specifications
Next ==
    \/ \E d \in Deltas, n \in {"up", "down"}, K \in PublishedKeySets : page_load(d, n, K)
    \/ load_data
    \/ main_no_data
    \/ global_overview
    \/ \E sel \in SUBSET Locations, dr \in DateRanges : time_series_analysis(sel, dr)
    \/ vaccination_progress
    \/ \E c \in Locations, test \in SUBSET (1..MaxRows) : predictive_modeling(c, test)

Spec == Init /\ [][Next]_vars

\* Preprocessing alone: load_data on any file.
NextData == load_data

SpecData == InitData /\ [][NextData]_vars

\* ------------------------------------------------------------------- claims
InPageLoad == pc \in {"main", "done", "crashed"}
LastRendered == IF rendered = <<>> THEN "none" ELSE rendered[Len(rendered)]

\* C1: when the GET of a page load raises, the exception is caught inside
\* fetch_covid_data: self.df is None, the error message is shown, main renders
\* no section, nothing is left uncaught, and self.latest_data and
\* self.countries are neither set nor read.
C1_FetchFailureHandled ==
    (fetch_status = "failed" /\ InPageLoad) =>
        /\ heap["df"].isNone
        /\ "Error loading data" \in errors
        /\ rendered = <<>>
        /\ pc # "crashed"
        /\ raised = "none"
        /\ attrs \cap {"latest_data", "countries"} = {}
        /\ reads \cap {"latest_data", "countries"} = {}
        /\ (pc = "done" => "Unable to load COVID-19 data" \in errors)

C1_Witness ==
    /\ fetch_status = "failed"
    /\ pc = "done"
    /\ gets = 1

\* C2: a page load issues at most one GET: none when the cache holds an entry
\* younger than 24 hours (self.df is then the cached table), exactly one when
\* there is no entry or the entry is 24 hours old or older; no GET after
\* load_data, so a failed GET is not retried in the same page load.
C2_AtMostOneGet ==
    /\ [](gets <= 1)
    /\ [][(pc = "init" /\ pc' = "main") =>
            IF cache.present /\ now - cache.at < 24 * 3600
            THEN gets' = 0 /\ heap'["df"] = cache.value /\ cache' = cache
            ELSE gets' = 1]_vars
    /\ [][(pc # "init" /\ pc' # "init") => gets' = gets]_vars

\* A page load served from the cache although the published file has changed.
C2_Witness ==
    /\ fetch_status = "hit"
    /\ gets = 0
    /\ pc = "main"
    /\ ~heap["df"].isNone
    /\ Len(heap["df"].rows) < Len(remote)

\* C3: after a successful load the six filled columns hold no missing value:
\* 0 where the fetched cell was missing, the fetched value otherwise; the rows
\* keep their number and order, and every other column but the parsed date
\* keeps its value, missing cells included.
C3_FillNa ==
    fetch_status = "ok" =>
        LET df == heap["df"]
            six == {"total_cases", "new_cases", "total_deaths", "new_deaths",
                    "total_vaccinations", "people_fully_vaccinated"}
        IN  /\ ~df.isNone
            /\ Len(df.rows) = Len(remote)
            /\ \A i \in 1..Len(remote) :
                /\ \A c \in six :
                    /\ df.rows[i][c] # NaN
                    /\ df.rows[i][c] = IF remote[i][c] = NaN THEN 0 ELSE remote[i][c]
                /\ \A c \in {"location", "population", "new_vaccinations"} :
                    df.rows[i][c] = remote[i][c]
                /\ DOMAIN df.rows[i] = DOMAIN remote[i]

\* A loaded table with a filled cell, a kept value and a cell left missing.
C3_Witness ==
    /\ fetch_status = "ok"
    /\ \E i \in 1..Len(remote) :
        /\ remote[i]["people_fully_vaccinated"] = NaN
        /\ heap["df"].rows[i]["people_fully_vaccinated"] = 0
    /\ \E i \in 1..Len(remote) :
        /\ remote[i]["population"] = NaN
        /\ heap["df"].rows[i]["population"] = NaN
    /\ \E i \in 1..Len(remote) : heap["df"].rows[i]["total_cases"] > 0

\* C4: after a successful load latest_data has exactly one row per distinct
\* location, and that row equals, column by column, the location's row with the
\* greatest date, for any row order and any pattern of missing values.
C4_LatestIsMostRecentRow ==
    fetch_status = "ok" =>
        LET df == heap["df"]
            ld == heap["latest_data"]
            of(l) == {i \in 1..Len(df.rows) : df.rows[i].location = l}
        IN  /\ Len(ld.rows) = Cardinality(unique_locations(df))
            /\ \A l \in unique_locations(df) :
                Cardinality({g \in 1..Len(ld.rows) : ld.rows[g].location = l}) = 1
            /\ \A g \in 1..Len(ld.rows) :
                \E i \in of(ld.rows[g].location) :
                    /\ \A j \in of(ld.rows[g].location) :
                        df.rows[j].date <= df.rows[i].date
                    /\ \A c \in CsvColumns : ld.rows[g][c] = df.rows[i][c]

\* The order the claim names.
C5_Order ==
    <<"global_overview", "time_series_analysis", "vaccination_progress",
      "predictive_modeling">>

\* C5: when the data loaded, load_data has completed before any section runs,
\* main calls the sections in the order global_overview, time_series_analysis,
\* vaccination_progress, predictive_modeling, each at most once and all four
\* when none raises; a section is called only while no earlier one has raised.
C5_SectionsInOrder ==
    /\ [](/\ Len(rendered) <= 4
          /\ \A i \in 1..Len(rendered) : rendered[i] = C5_Order[i]
          /\ (rendered # <<>> =>
                /\ fetch_status \in {"hit", "ok"}
                /\ {"df", "latest_data", "countries"} \subseteq attrs)
          /\ ((pc = "done" /\ ~heap["df"].isNone) =>
                rendered = C5_Order /\ raised = "none")
          /\ (pc = "crashed" => raised # "none" /\ rendered # <<>>))
    /\ [][rendered' # rendered /\ rendered' # <<>> =>
            /\ pc = "main"
            /\ raised = "none"
            /\ rendered' = Append(rendered, C5_Order[Len(rendered) + 1])]_vars

C5_Witness ==
    /\ pc = "done"
    /\ raised = "none"
    /\ Len(rendered) = 4
    /\ fetch_status = "ok"

\* C6: the cache keeps the None of a failed fetch: a page load that starts less
\* than 24 hours after a failed GET issues no GET and ends with self.df None
\* and no section rendered, whatever the network does by then; the GET is
\* issued again only once those 24 hours have passed.
C6_FailureIsCached ==
    /\ []((fetch_status = "failed" /\ InPageLoad) =>
            cache.present /\ cache.value.isNone /\ cache.at = now)
    /\ []((InPageLoad /\ failed_at # Never /\ now - failed_at < 24 * 3600) =>
            /\ heap["df"].isNone
            /\ rendered = <<>>
            /\ \/ fetch_status = "failed" /\ gets = 1 /\ failed_at = now
               \/ fetch_status = "hit" /\ gets = 0)
    /\ [][(gets' = gets + 1 /\ failed_at # Never) =>
            now - failed_at >= 24 * 3600]_vars

\* A later page load, network up again, still without data and without a GET.
C6_Witness ==
    /\ pc = "done"
    /\ fetch_status = "hit"
    /\ network = "up"
    /\ gets = 0
    /\ heap["df"].isNone
    /\ failed_at # Never
    /\ now - failed_at = 24 * 3600 - 1

\* C7: for every country that can be selected in predictive_modeling, whatever
\* its number of rows, the split gives a non-empty training set and a non-empty
\* test set, disjoint and covering the country's rows, and the section returns
\* with the Mean Squared Error and the R2 score shown.
C7_SplitNeverEmpty ==
    (LastRendered = "predictive_modeling" /\ predict_country # "none") =>
        LET n == Cardinality({i \in 1..Len(heap["df"].rows) :
                                heap["df"].rows[i].location = predict_country})
        IN  /\ raised = "none"
            /\ split.train # {}
            /\ split.test # {}
            /\ split.train \cap split.test = {}
            /\ split.train \cup split.test = 1..n
            /\ metrics = {"Mean Squared Error", "R2 Score"}

\* C8: in time_series_analysis, once the widgets have returned, the plotted
\* rows are the rows of self.df of a selected country with start <= date <= end
\* (none with no country selected or start > end), and the section reads both
\* ends of whatever the date-range widget returned.
C8_FilterExact ==
    (LastRendered = "time_series_analysis"
        /\ raised \notin {"AttributeError", "StreamlitAPIException"}) =>
        /\ raised = "none"
        /\ Len(date_range) = 2
        /\ chart.rows =
              SelectSeq(heap["df"].rows,
                        LAMBDA r : /\ r.location \in selected_countries
                                   /\ date_range[1] <= r.date
                                   /\ r.date <= date_range[2])
        /\ ((selected_countries = {} \/ date_range[1] > date_range[2]) =>
              chart.rows = <<>>)

\* C9: rendering a section changes neither self.df, self.latest_data,
\* self.countries nor the cached entry: log_cases, days_since_start and
\* vaccination_percentage go to the section's own tables only.
C9_SectionsLeaveDataAlone ==
    /\ []((InPageLoad /\ ~heap["df"].isNone) =>
            /\ heap["df"].columns = CsvColumns
            /\ heap["latest_data"].columns = CsvColumns
            /\ heap["df"] = cache.value)
    /\ [][pc = "main" =>
            /\ heap'["df"] = heap["df"]
            /\ heap'["latest_data"] = heap["latest_data"]
            /\ self_countries' = self_countries
            /\ attrs' = attrs
            /\ cache' = cache]_vars

\* After global_overview: the chart's table has log_cases, latest_data has not.
C9_Witness ==
    /\ LastRendered = "global_overview"
    /\ "log_cases" \in chart.columns
    /\ "log_cases" \notin heap["latest_data"].columns
    /\ Len(heap["latest_data"].rows) = 3

====
